---- MODULE Spec2Model ----
(***************************************************************************)
(* State-machine model of the grid variant of the unicellular foraging     *)
(* simulation (Cycle1_Unicellular/agents.py) and of the model tick         *)
(* (Cycle1_Unicellular/models.py).                                         *)
(*                                                                         *)
(* One AgentStep action is one call of UnicellularAgent.step: sense,       *)
(* decide, move, collect, take hazard damage, pay the tick cost, remove.   *)
(* A model tick is ShuffleDo (the order is drawn), one AgentStep per       *)
(* queued agent, then CollectData (one row of metrics).                    *)
(***************************************************************************)
EXTENDS Integers, Sequences, FiniteSets, TLC

VARIABLES
    torus,            \* model.space.torus
    sensing_radius,   \* UnicellularAgent.sensing_radius (same for all agents)
    movement_speed,   \* UnicellularAgent.movement_speed (same for all agents)
    agents,           \* sequence of agent records
    resources,        \* sequence of resource records
    hazards,          \* sequence of hazard records (immutable)
    queue,            \* agents still to be stepped in the running tick
    phase,            \* "idle" (between ticks) or "running" (inside model.step)
    ticks,            \* number of completed model.step calls
    row,              \* the last row the data collector appended
    last,             \* what the most recent agent step did (observation only)
    call,             \* the most recent direct call of one function (SpecCollect,
                      \* SpecDistance, SpecMove, SpecConstruct)
    twin,             \* the agents of a second run built from the same seed (SpecSeed)
    tick_log          \* what the running (or last) tick started from and did so
                      \* far (observation only)

vars == <<torus, sensing_radius, movement_speed, agents, resources, hazards,
          queue, phase, ticks, row, last, call, twin, tick_log>>

----------------------------------------------------------------------------
(* Bounds of the model *)

Width == 3
Height == 3
MaxTicks == 8

(* Program constants *)

InitialEnergy == 100
CollectAmount == 5
max_hazard_radius == 5
DamageCheckRadius == 5

(* Values the bounded construction draws from *)

SensingRadii == {1}
MovementSpeeds == {1, 2}
ResourceAmounts == {7, 20}
HazardRadii == {1}
HazardDamages == {5, 10}

Cells == (0 .. Width - 1) \X (0 .. Height - 1)

CompassDirections ==
    << <<0, 1>>, <<0, -1>>, <<1, 0>>, <<-1, 0>>,
       <<1, 1>>, <<1, -1>>, <<-1, 1>>, <<-1, -1>> >>

Dirs == {CompassDirections[i] : i \in 1 .. 8}

----------------------------------------------------------------------------
(* Arithmetic helpers *)

Abs(x) == IF x < 0 THEN -x ELSE x

Min(a, b) == IF a <= b THEN a ELSE b

Max(a, b) == IF a >= b THEN a ELSE b

\* np.sign on a number
Sign(x) == IF x > 0 THEN 1 ELSE IF x < 0 THEN -1 ELSE 0

RECURSIVE Perms(_)
\* every order in which the members of S can be visited
Perms(S) ==
    IF S = {} THEN {<<>>}
    ELSE UNION {{<<x>> \o p : p \in Perms(S \ {x})} : x \in S}

----------------------------------------------------------------------------
(* Geometry: agents.py cell_distance, get_direction_to, get_direction_away *)

\* cell_distance without abs() on the coordinate differences
CellDistanceSigned(my, other) ==
    LET dx0 == my[1] - other[1]
        dy0 == my[2] - other[2]
        dx == IF torus THEN Min(dx0, Width - dx0) ELSE dx0
        dy == IF torus THEN Min(dy0, Height - dy0) ELSE dy0
    IN  Max(dx, dy)

cell_distance(my, other) ==
    LET dx0 == Abs(my[1] - other[1])
        dy0 == Abs(my[2] - other[2])
        dx == IF torus THEN Min(dx0, Width - dx0) ELSE dx0
        dy == IF torus THEN Min(dy0, Height - dy0) ELSE dy0
    IN  Max(dx, dy)

\* abs(d) > extent / 2 is a float comparison: 2 * abs(d) > extent
WrapDelta(d, extent) ==
    IF torus /\ 2 * Abs(d) > extent
    THEN (0 - Sign(d)) * (extent - Abs(d))
    ELSE d

get_direction_to(my, target) ==
    <<Sign(WrapDelta(target[1] - my[1], Width)),
      Sign(WrapDelta(target[2] - my[2], Height))>>

get_direction_away(my, target) ==
    LET toward == get_direction_to(my, target)
    IN  <<0 - toward[1], 0 - toward[2]>>

----------------------------------------------------------------------------
(* Resource (agents.py) *)

is_depleted(r) == r.amount <= 0

\* Resource.collect handing out the requested amount whatever is left
CollectUncapped(r, n) ==
    IF r.amount > 0
    THEN [res |-> [r EXCEPT !.amount = r.amount - n,
                            !.live = IF r.amount - n <= 0 THEN FALSE ELSE r.live,
                            !.removes = IF r.amount - n <= 0 THEN r.removes + 1
                                        ELSE r.removes],
          collected |-> n]
    ELSE [res |-> r, collected |-> 0]

\* Resource.collect without the removal of the depleted resource
CollectKeepsDepleted(r, n) ==
    IF r.amount > 0
    THEN LET collected == Min(n, r.amount)
         IN  [res |-> [r EXCEPT !.amount = r.amount - collected],
              collected |-> collected]
    ELSE [res |-> r, collected |-> 0]

\* Resource.collect(amount=n): the resource after the call and the value returned
collect(r, n) ==
    IF r.amount > 0
    THEN LET collected == Min(n, r.amount)
             left == r.amount - collected
         IN  [res |-> [r EXCEPT !.amount = left,
                                !.live = IF left <= 0 THEN FALSE ELSE r.live,
                                !.removes = IF left <= 0 THEN r.removes + 1
                                            ELSE r.removes],
              collected |-> collected]
    ELSE [res |-> r, collected |-> 0]

\* Resource.collect of models.py (the resource is never removed)
plain_collect(r, n) ==
    IF r.amount > 0
    THEN LET collected == Min(n, r.amount)
         IN  [res |-> [r EXCEPT !.amount = r.amount - collected],
              collected |-> collected]
    ELSE [res |-> r, collected |-> 0]

----------------------------------------------------------------------------
(* 1. Sensing *)

\* sense_resources with a strict comparison against the sensing radius
SenseResourcesStrict(rs, my) ==
    {i \in DOMAIN rs :
        /\ rs[i].live
        /\ ~is_depleted(rs[i])
        /\ cell_distance(my, rs[i].pos) < sensing_radius}

\* ids of the resources sense_resources detects from cell my
sense_resources(rs, my) ==
    {i \in DOMAIN rs :
        /\ rs[i].live
        /\ ~is_depleted(rs[i])
        /\ cell_distance(my, rs[i].pos) <= sensing_radius}

\* ids of the hazards sense_hazards detects from cell my
sense_hazards(my) ==
    {i \in DOMAIN hazards :
        /\ cell_distance(my, hazards[i].pos) <= sensing_radius + max_hazard_radius
        /\ cell_distance(my, hazards[i].pos) <= sensing_radius + hazards[i].radius}

----------------------------------------------------------------------------
(* 2. Decision.  The float weights are kept exact: every hazard weight is  *)
(* 1/(e + 0.1) with e = 0.1 or a positive integer, every resource weight   *)
(* 1/(d + 1); both are scaled by a common multiple of the denominators, so *)
(* that the sign of a sum is the sign of the float sum.                    *)

MaxDistance == Max(Width, Height)

RECURSIVE HazardScaleUpTo(_)
HazardScaleUpTo(k) == IF k = 0 THEN 1 ELSE (10 * k + 1) * HazardScaleUpTo(k - 1)

HazardScale == HazardScaleUpTo(MaxDistance)

RECURSIVE Factorial(_)
Factorial(k) == IF k = 0 THEN 1 ELSE k * Factorial(k - 1)

ResourceScale == Factorial(MaxDistance + 1)

\* 1.0 / (max(0.1, distance - radius) + 0.1), times HazardScale
HazardWeight(distance, radius) ==
    IF distance - radius <= 0
    THEN 5 * HazardScale
    ELSE (10 * HazardScale) \div (10 * (distance - radius) + 1)

\* 1.0 / (distance + 1.0), times ResourceScale
ResourceWeight(distance) == ResourceScale \div (distance + 1)

RECURSIVE HazardSum(_, _)
\* <<weighted_dx, weighted_dy>> of the hazard loop
HazardSum(my, H) ==
    IF H = {} THEN <<0, 0>>
    ELSE LET h == CHOOSE x \in H : TRUE
             away == get_direction_away(my, hazards[h].pos)
             w == HazardWeight(cell_distance(my, hazards[h].pos), hazards[h].radius)
             rest == HazardSum(my, H \ {h})
         IN  <<rest[1] + away[1] * w, rest[2] + away[2] * w>>

RECURSIVE ResourceSum(_, _, _)
\* <<weighted_dx, weighted_dy>> of the resource loop
ResourceSum(rs, my, R) ==
    IF R = {} THEN <<0, 0>>
    ELSE LET r == CHOOSE x \in R : TRUE
             toward == get_direction_to(my, rs[r].pos)
             w == ResourceWeight(cell_distance(my, rs[r].pos))
             rest == ResourceSum(rs, my, R \ {r})
         IN  <<rest[1] + toward[1] * w, rest[2] + toward[2] * w>>

\* what random.random() < 0.2 followed by random.choice can yield: 0 keeps
\* the heading, i > 0 replaces it with the i-th compass direction
RandomWalkChoices == 0 .. 8

\* the heading after the random-walk draw rnd
RandomWalk(heading, rnd) == IF rnd = 0 THEN heading ELSE CompassDirections[rnd]

\* decide_movement with the resource tier tried before the hazard tier
DecideResourcesFirst(a, rs, R, H, rnd) ==
    LET hsum == HazardSum(a.pos, H)
        rsum == ResourceSum(rs, a.pos, R)
    IN  IF R # {} /\ rsum # <<0, 0>>
        THEN [branch |-> "resource", direction |-> <<Sign(rsum[1]), Sign(rsum[2])>>]
        ELSE IF H # {} /\ hsum # <<0, 0>>
        THEN [branch |-> "hazard", direction |-> <<Sign(hsum[1]), Sign(hsum[2])>>]
        ELSE [branch |-> "random", direction |-> RandomWalk(a.direction, rnd)]

\* decide_movement without the resource tier
DecideWithoutResourceTier(a, rs, R, H, rnd) ==
    LET hsum == HazardSum(a.pos, H)
    IN  IF H # {} /\ hsum # <<0, 0>>
        THEN [branch |-> "hazard", direction |-> <<Sign(hsum[1]), Sign(hsum[2])>>]
        ELSE [branch |-> "random", direction |-> RandomWalk(a.direction, rnd)]

\* decide_movement whose tiers return the sign of their sum without testing
\* that it is nonzero
DecideUnguarded(a, rs, R, H, rnd) ==
    LET hsum == HazardSum(a.pos, H)
        rsum == ResourceSum(rs, a.pos, R)
    IN  IF H # {}
        THEN [branch |-> "hazard", direction |-> <<Sign(hsum[1]), Sign(hsum[2])>>]
        ELSE IF R # {}
        THEN [branch |-> "resource", direction |-> <<Sign(rsum[1]), Sign(rsum[2])>>]
        ELSE [branch |-> "random", direction |-> RandomWalk(a.direction, rnd)]

\* decide_movement(resources, hazards): the tier that answered and the direction
decide_movement(a, rs, R, H, rnd) ==
    LET hsum == HazardSum(a.pos, H)
        rsum == ResourceSum(rs, a.pos, R)
    IN  IF H # {} /\ hsum # <<0, 0>>
        THEN [branch |-> "hazard", direction |-> <<Sign(hsum[1]), Sign(hsum[2])>>]
        ELSE IF R # {} /\ rsum # <<0, 0>>
        THEN [branch |-> "resource", direction |-> <<Sign(rsum[1]), Sign(rsum[2])>>]
        ELSE [branch |-> "random",
              direction |-> RandomWalk(a.direction, rnd)]

----------------------------------------------------------------------------
(* 3. Movement *)

InGrid(c) == c[1] \in 0 .. Width - 1 /\ c[2] \in 0 .. Height - 1

\* cell.connections.get(direction): the neighbouring cell, or the cell
\* itself when there is no such connection (the agent stays)
Connection(pos, direction) ==
    LET raw == <<pos[1] + direction[1], pos[2] + direction[2]>>
    IN  IF direction \notin Dirs THEN pos
        ELSE IF torus THEN <<raw[1] % Width, raw[2] % Height>>
        ELSE IF InGrid(raw) THEN raw
        ELSE pos

\* the cell of the agent after move(direction)
move(pos, direction) ==
    IF movement_speed = 1
    THEN Connection(pos, direction)
    ELSE LET nx == pos[1] + direction[1] * movement_speed
             ny == pos[2] + direction[2] * movement_speed
         IN  IF torus
             THEN <<nx % Width, ny % Height>>
             ELSE <<Max(0, Min(Width - 1, nx)), Max(0, Min(Height - 1, ny))>>

----------------------------------------------------------------------------
(* 4. Interaction *)

RECURSIVE SumCollected(_, _, _)
\* total returned by collect(amount=5) over the resources with ids in S
SumCollected(rs, S, n) ==
    IF S = {} THEN 0
    ELSE LET i == CHOOSE x \in S : TRUE
         IN  collect(rs[i], n).collected + SumCollected(rs, S \ {i}, n)

\* the undepleted resources among cell.agents of cell c
ResourcesAt(rs, c) ==
    {i \in DOMAIN rs : rs[i].live /\ rs[i].pos = c /\ ~is_depleted(rs[i])}

\* collection that credits the agent with the 5 requested from each
\* resource, whatever the resource returned
CollectCreditsRequest(rs, c) ==
    LET S == {i \in DOMAIN rs : rs[i].live /\ rs[i].pos = c /\ ~is_depleted(rs[i])}
    IN  [resources |-> [i \in DOMAIN rs |->
                           IF i \in S THEN collect(rs[i], CollectAmount).res
                           ELSE rs[i]],
         collected |-> CollectAmount * Cardinality(S),
         from |-> S]

\* collection that stops after the first resource found in the cell
CollectFirstResourceOnly(rs, c) ==
    LET S == {i \in DOMAIN rs : rs[i].live /\ rs[i].pos = c /\ ~is_depleted(rs[i])}
        first == CHOOSE i \in S : \A j \in S : i <= j
    IN  IF S = {} THEN [resources |-> rs, collected |-> 0, from |-> {}]
        ELSE [resources |-> [rs EXCEPT ![first] = collect(rs[first], CollectAmount).res],
              collected |-> collect(rs[first], CollectAmount).collected,
              from |-> {first}]

\* collection from the amounts the tick started with: what earlier agents
\* of the same tick took or removed is not seen
CollectFromTickStart(rs, c) ==
    LET S == {i \in DOMAIN rs : rs[i].pos = c /\ tick_log.amounts[i] > 0}
        got(i) == Min(CollectAmount, tick_log.amounts[i])
        sum[T \in SUBSET S] ==
            IF T = {} THEN 0
            ELSE LET i == CHOOSE x \in T : TRUE IN got(i) + sum[T \ {i}]
    IN  [resources |-> [i \in DOMAIN rs |->
                           IF i \in S
                           THEN [rs[i] EXCEPT !.amount = @ - got(i),
                                              !.live = FALSE,
                                              !.removes = @ + 1]
                           ELSE rs[i]],
         collected |-> sum[S],
         from |-> S]

\* collect_resources_at_current_cell: the resources afterwards and the total
collect_resources_at_current_cell(rs, c) ==
    LET S == ResourcesAt(rs, c)
    IN  [resources |-> [i \in DOMAIN rs |->
                           IF i \in S THEN collect(rs[i], CollectAmount).res
                           ELSE rs[i]],
         collected |-> SumCollected(rs, S, CollectAmount),
         from |-> S]

\* the covering hazards with a strict comparison against the radius
CoveringHazardsStrict(c) ==
    {i \in DOMAIN hazards :
        /\ cell_distance(c, hazards[i].pos) <= DamageCheckRadius
        /\ cell_distance(c, hazards[i].pos) < hazards[i].radius}

\* the hazards whose damage check_hazards_at_current_position applies at c
CoveringHazards(c) ==
    {i \in DOMAIN hazards :
        /\ cell_distance(c, hazards[i].pos) <= DamageCheckRadius
        /\ cell_distance(c, hazards[i].pos) <= hazards[i].radius}

RECURSIVE TotalDamage(_)
TotalDamage(S) ==
    IF S = {} THEN 0
    ELSE LET i == CHOOSE x \in S : TRUE
         IN  hazards[i].damage + TotalDamage(S \ {i})

\* the hazard loop stopping after the first covering hazard, killed or not
FirstHazardOnly(energy, order) ==
    IF order = <<>> THEN [energy |-> energy, killed |-> FALSE]
    ELSE [energy |-> energy - hazards[Head(order)].damage,
          killed |-> energy - hazards[Head(order)].damage <= 0]

RECURSIVE check_hazards_at_current_position(_, _)
\* the hazard loop over the covering hazards in the order given: the energy
\* it leaves and whether it called remove() and returned
check_hazards_at_current_position(energy, order) ==
    IF order = <<>> THEN [energy |-> energy, killed |-> FALSE]
    ELSE LET e == energy - hazards[Head(order)].damage
         IN  IF e <= 0 THEN [energy |-> e, killed |-> TRUE]
             ELSE check_hazards_at_current_position(e, Tail(order))

----------------------------------------------------------------------------
(* UnicellularAgent.step *)

\* step() of agent a in world (as, rs); rnd is the outcome of the random
\* walk draw, order the order in which neighborhood.agents yields the
\* covering hazards (the library's iteration order)
step(as, rs, a, rnd, order) ==
    LET me == as[a]
        R == sense_resources(rs, me.pos)
        H == sense_hazards(me.pos)
        d == decide_movement(me, rs, R, H, rnd)
        newpos == move(me.pos, d.direction)
        col == collect_resources_at_current_cell(rs, newpos)
        e1 == me.energy + col.collected
        hz == check_hazards_at_current_position(e1, order)
        e3 == hz.energy - 1
        calls == (IF hz.killed THEN 1 ELSE 0) + (IF e3 <= 0 THEN 1 ELSE 0)
    IN  [agents |-> [as EXCEPT ![a] =
                        [pos |-> newpos,
                         direction |-> d.direction,
                         energy |-> e3,
                         resources_collected |-> me.resources_collected + col.collected,
                         live |-> me.live /\ calls = 0,
                         removes |-> me.removes + calls,
                         late_writes |-> me.late_writes + (IF hz.killed THEN 1 ELSE 0)]],
         resources |-> col.resources,
         last |-> [agent |-> a,
                   energy_before |-> me.energy,
                   sensed_resources |-> R,
                   sensed_hazards |-> H,
                   hazard_sum |-> HazardSum(me.pos, H),
                   resource_sum |-> ResourceSum(rs, me.pos, R),
                   branch |-> d.branch,
                   direction |-> d.direction,
                   collected |-> col.collected,
                   collected_from |-> col.from,
                   damage_applied |-> e1 - hz.energy,
                   killed_by_hazard |-> hz.killed]]

\* every outcome step() of agent a can have in world (as, rs)
StepOutcomes(as, rs, a) ==
    UNION {{step(as, rs, a, rnd, order) :
               order \in Perms(CoveringHazards(move(as[a].pos,
                   decide_movement(as[a], rs, sense_resources(rs, as[a].pos),
                                   sense_hazards(as[a].pos), rnd).direction)))} :
           rnd \in RandomWalkChoices}

----------------------------------------------------------------------------
(* Construction *)

\* an agent constructed with half the energy
NewAgentHalfEnergy(pos, heading) ==
    [pos |-> pos, direction |-> heading, energy |-> InitialEnergy \div 2,
     resources_collected |-> 0, live |-> TRUE, removes |-> 0, late_writes |-> 0]

\* an agent constructed with twice the energy
NewAgentDoubleEnergy(pos, heading) ==
    [pos |-> pos, direction |-> heading, energy |-> 2 * InitialEnergy,
     resources_collected |-> 0, live |-> TRUE, removes |-> 0, late_writes |-> 0]

\* UnicellularAgent.__init__: energy 100, nothing collected, a random heading
NewAgent(pos, heading) ==
    [pos |-> pos, direction |-> heading, energy |-> InitialEnergy,
     resources_collected |-> 0, live |-> TRUE, removes |-> 0, late_writes |-> 0]

\* Resource.__init__
NewResource(pos, amount) ==
    [pos |-> pos, amount |-> amount, initial_amount |-> amount,
     live |-> TRUE, removes |-> 0]

\* Hazard.__init__
NewHazard(pos, damage, radius) == [pos |-> pos, damage |-> damage, radius |-> radius]

\* sequences over S of length lo .. hi
SeqsOf(S, lo, hi) == UNION {[1 .. n -> S] : n \in lo .. hi}

NoStep ==
    [agent |-> 0, energy_before |-> 0, sensed_resources |-> {}, sensed_hazards |-> {},
     hazard_sum |-> <<0, 0>>, resource_sum |-> <<0, 0>>, branch |-> "none",
     direction |-> <<0, 0>>, collected |-> 0, collected_from |-> {},
     damage_applied |-> 0, killed_by_hazard |-> FALSE]

NoCall == [id |-> 0, n |-> 0, before |-> 0, returned |-> 0]

\* a number a reporter returns: NaN, or the ratio sum / count
NaN == [nan |-> TRUE, sum |-> 0, count |-> 0]

Ratio(sum, count) == [nan |-> FALSE, sum |-> sum, count |-> count]

NoRow ==
    [population |-> 0, total_collected |-> 0, active_resources |-> 0,
     mean_distance |-> Ratio(0, 1)]

NoTick == [live |-> {}, amounts |-> <<>>, stepped |-> <<>>, collectors |-> <<>>, rows |-> 0]

----------------------------------------------------------------------------
(* The model tick: models.py UnicellularModel.step *)

LiveAgents(as) == {i \in DOMAIN as : as[i].live}

RECURSIVE SumCollectedBy(_, _)
SumCollectedBy(as, S) ==
    IF S = {} THEN 0
    ELSE LET i == CHOOSE x \in S : TRUE
         IN  as[i].resources_collected + SumCollectedBy(as, S \ {i})

\* the resources that are not depleted
ActiveResources(rs) == {i \in DOMAIN rs : ~is_depleted(rs[i])}

RECURSIVE MinDistance(_, _, _)
\* min(distances_to_resources) for an agent on cell my; S is not empty
MinDistance(rs, my, S) ==
    LET i == CHOOSE x \in S : TRUE
        d == cell_distance(my, rs[i].pos)
    IN  IF S = {i} THEN d ELSE Min(d, MinDistance(rs, my, S \ {i}))

RECURSIVE SumMinDistances(_, _, _)
SumMinDistances(as, rs, A) ==
    IF A = {} THEN 0
    ELSE LET a == CHOOSE x \in A : TRUE
         IN  MinDistance(rs, as[a].pos, ActiveResources(rs))
                 + SumMinDistances(as, rs, A \ {a})

\* calculate_mean_distance_to_resources(model): 0 without agents, NaN
\* without active resources, else the mean of the nearest-resource distances
calculate_mean_distance_to_resources(as, rs) ==
    IF LiveAgents(as) = {} THEN Ratio(0, 1)
    ELSE IF ActiveResources(rs) = {} THEN NaN
    ELSE Ratio(SumMinDistances(as, rs, LiveAgents(as)), Cardinality(LiveAgents(as)))

\* the log of a tick that starts from (as, rs): the live set and the
\* resource amounts at the start, the agents stepped so far in the order of
\* their steps, for each resource the agents that collected from it, in
\* that order, and the number of rows appended
StartTick(as, rs) ==
    [live |-> LiveAgents(as),
     amounts |-> [i \in DOMAIN rs |-> rs[i].amount],
     stepped |-> <<>>,
     collectors |-> [i \in DOMAIN rs |-> <<>>],
     rows |-> 0]

\* the log after the agent step recorded in st
LogStep(log, st) ==
    [log EXCEPT !.stepped = Append(@, st.agent),
                !.collectors = [i \in DOMAIN log.collectors |->
                                   IF i \in st.collected_from
                                   THEN Append(log.collectors[i], st.agent)
                                   ELSE log.collectors[i]]]

\* shuffle_do over every agent ever created, removed ones included
ShuffleDoAll(cap) ==
    /\ phase = "idle"
    /\ ticks < cap
    /\ \E order \in Perms(DOMAIN agents) : queue' = order
    /\ phase' = "running"
    /\ tick_log' = StartTick(agents, resources)
    /\ UNCHANGED <<torus, sensing_radius, movement_speed, agents, resources,
                   hazards, ticks, row, last, call, twin>>

\* self.agents.shuffle_do("step"): the order of this tick is drawn
ShuffleDo(cap) ==
    /\ phase = "idle"
    /\ ticks < cap
    /\ \E order \in Perms(LiveAgents(agents)) : queue' = order
    /\ phase' = "running"
    /\ tick_log' = StartTick(agents, resources)
    /\ UNCHANGED <<torus, sensing_radius, movement_speed, agents, resources,
                   hazards, ticks, row, last, call, twin>>

\* the step of the next agent of the shuffled order
AgentStep ==
    /\ phase = "running"
    /\ queue # <<>>
    /\ \E out \in StepOutcomes(agents, resources, Head(queue)) :
          /\ agents' = out.agents
          /\ resources' = out.resources
          /\ last' = out.last
          /\ tick_log' = LogStep(tick_log, out.last)
    /\ queue' = Tail(queue)
    /\ UNCHANGED <<torus, sensing_radius, movement_speed, hazards, phase, ticks,
                   row, call, twin>>

\* self.datacollector.collect(self): one row of the model reporters
CollectData ==
    /\ phase = "running"
    /\ queue = <<>>
    /\ row' = [population |-> Cardinality(LiveAgents(agents)),
               total_collected |-> SumCollectedBy(agents, LiveAgents(agents)),
               active_resources |-> Cardinality(ActiveResources(resources)),
               mean_distance |-> calculate_mean_distance_to_resources(agents, resources)]
    /\ ticks' = ticks + 1
    /\ phase' = "idle"
    /\ tick_log' = [tick_log EXCEPT !.rows = @ + 1]
    /\ UNCHANGED <<torus, sensing_radius, movement_speed, agents, resources,
                   hazards, queue, last, call, twin>>

----------------------------------------------------------------------------
(* Spec: bounded constructions of the grid model, run for MaxTicks ticks. *)
(* One agent starts on a corner, an edge or the centre cell; up to one     *)
(* resource lies on the centre cell and up to two hazards on the two       *)
(* cells left and right of it, so that hazards can overlap, cancel each    *)
(* other, and share a cell with the agent or the resource.                 *)

AgentStarts == {<<0, 0>>, <<1, 0>>, <<1, 1>>}
AgentHeadings == {<<1, 0>>, <<-1, -1>>}
ResourceCells == {<<1, 1>>}
HazardCells == {<<0, 1>>, <<2, 1>>}

Init ==
    /\ torus \in BOOLEAN
    /\ sensing_radius \in SensingRadii
    /\ movement_speed \in MovementSpeeds
    /\ agents \in SeqsOf({NewAgent(c, h) : c \in AgentStarts, h \in AgentHeadings}, 1, 1)
    /\ resources \in SeqsOf({NewResource(c, n) : c \in ResourceCells, n \in ResourceAmounts}, 0, 1)
    /\ hazards \in SeqsOf({NewHazard(c, d, r) : c \in HazardCells, d \in HazardDamages,
                                                r \in HazardRadii}, 0, 2)
    /\ queue = <<>>
    /\ phase = "idle"
    /\ ticks = 0
    /\ row = NoRow
    /\ last = NoStep
    /\ tick_log = NoTick
    /\ call = NoCall
    /\ twin = <<>>

Next ==
    \/ ShuffleDo(MaxTicks)
    \/ AgentStep
    \/ CollectData

Spec == Init /\ [][Next]_vars

----------------------------------------------------------------------------
(* Properties of one agent step, read off the record of the latest step *)

Stepped == last.agent # 0

Me == agents[last.agent]

\* the sum of the damage of every hazard whose radius covers cell c
\* (Chebyshev distance <= hazard.radius)
DamageCovering(c) ==
    TotalDamage({i \in DOMAIN hazards :
                    cell_distance(c, hazards[i].pos) <= hazards[i].radius})

\* E - 1 + C - D for the latest step
ExpectedEnergy == last.energy_before - 1 + last.collected - DamageCovering(Me.pos)

SignOf(v) == <<Sign(v[1]), Sign(v[2])>>

\* C1 as claimed: after its step an agent has energy E - 1 + C - D, with D
\* the damage of every hazard covering its new cell, and it is removed in
\* that step iff this value is <= 0.
C1_EnergyBalance ==
    Stepped =>
        /\ Me.energy = ExpectedEnergy
        /\ (~Me.live <=> ExpectedEnergy <= 0)

\* C1 amended: the agent is removed in the step iff E - 1 + C - D <= 0; its
\* energy after the step is E - 1 + C - D', D' being the damage of the
\* covering hazards applied before the hazard check stopped; D' = D unless a
\* hazard killed the agent, so a surviving agent has exactly E - 1 + C - D.
C1_EnergyBalanceUntilDeath ==
    Stepped =>
        /\ (~Me.live <=> ExpectedEnergy <= 0)
        /\ Me.energy = last.energy_before - 1 + last.collected - last.damage_applied
        /\ last.damage_applied <= DamageCovering(Me.pos)
        /\ (~last.killed_by_hazard => last.damage_applied = DamageCovering(Me.pos))
        /\ (Me.live => Me.energy = ExpectedEnergy)

\* C1 witness: an agent collected, and was killed by a hazard while another
\* covering hazard was still to be applied
C1_Witness ==
    /\ Stepped
    /\ last.killed_by_hazard
    /\ last.damage_applied < DamageCovering(Me.pos)

\* C2 as claimed: an agent whose energy reached <= 0 is removed exactly
\* once, and nothing writes its energy or calls remove() again afterwards.
C2_RemovedOnce ==
    \A i \in DOMAIN agents :
        /\ agents[i].removes <= 1
        /\ agents[i].late_writes = 0

\* C5 as claimed: whenever a hazard is sensed the returned direction is
\* nonzero and is the per-axis sign of the weighted sum of the away vectors.
C5_HazardsAlwaysDecide ==
    (Stepped /\ last.sensed_hazards # {}) =>
        /\ last.direction # <<0, 0>>
        /\ last.direction = SignOf(last.hazard_sum)

\* C5 amended: whenever a hazard is sensed and the weighted sum of the away
\* vectors is nonzero on some axis, the returned direction is the per-axis
\* sign of that sum, whatever resources are sensed; when the sum is zero on
\* both axes the hazard tier gives no answer and the direction (still
\* nonzero) comes from the resource tier or the random walk.
C5_NonzeroHazardSumDecides ==
    (Stepped /\ last.sensed_hazards # {}) =>
        /\ last.direction # <<0, 0>>
        /\ (last.hazard_sum # <<0, 0>> =>
                /\ last.branch = "hazard"
                /\ last.direction = SignOf(last.hazard_sum))
        /\ (last.hazard_sum = <<0, 0>> => last.branch \in {"resource", "random"})

\* C5 witness: hazards and resources sensed together, the resources pulling
\* another way than the hazards push
C5_Witness ==
    /\ Stepped
    /\ last.sensed_hazards # {}
    /\ last.sensed_resources # {}
    /\ last.hazard_sum # <<0, 0>>
    /\ last.resource_sum # <<0, 0>>
    /\ SignOf(last.resource_sum) # SignOf(last.hazard_sum)
    /\ last.branch = "hazard"

\* C6 as claimed: the random-walk branch is taken only in a step where no
\* hazard and no undepleted resource was sensed.
C6_RandomWalkOnlyUnsensed ==
    (Stepped /\ last.branch = "random") =>
        /\ last.sensed_hazards = {}
        /\ last.sensed_resources = {}

\* C6 amended: the random-walk branch is taken only in a step where neither
\* tier gave a direction: no hazard was sensed or their weighted sum was
\* zero on both axes, and no undepleted resource was sensed or their
\* weighted sum was zero on both axes; it returns a compass direction.
C6_RandomWalkOnlyWithoutSignal ==
    (Stepped /\ last.branch = "random") =>
        /\ last.sensed_hazards = {} \/ last.hazard_sum = <<0, 0>>
        /\ last.sensed_resources = {} \/ last.resource_sum = <<0, 0>>
        /\ last.direction \in Dirs

\* C6 witness: a random walk although a resource (in the agent's own cell)
\* was sensed
C6_Witness ==
    /\ Stepped
    /\ last.branch = "random"
    /\ last.sensed_resources # {}

\* C18: decide_movement always returns one of the 8 nonzero compass
\* directions, from the tier whose weighted sum is nonzero or from the
\* random walk, also when a sensed hazard or resource lies in the agent's
\* own cell and adds a zero term; the heading of an agent is never (0, 0).
C18_DirectionIsNeverZero ==
    /\ \A i \in DOMAIN agents : agents[i].direction \in Dirs
    /\ Stepped =>
          /\ last.direction \in Dirs
          /\ last.direction # <<0, 0>>
          /\ last.branch \in {"hazard", "resource", "random"}
          /\ last.branch = "hazard" => last.direction = SignOf(last.hazard_sum)
          /\ last.branch = "resource" => last.direction = SignOf(last.resource_sum)
          /\ Me.direction = last.direction

\* C18 witness: the only hazard sensed lay in the agent's own cell, so its
\* zero term was the whole hazard sum, and a compass direction was returned
C18_Witness ==
    /\ Stepped
    /\ Cardinality(last.sensed_hazards) = 1
    /\ last.hazard_sum = <<0, 0>>
    /\ last.branch \in {"resource", "random"}
    /\ last.direction \in Dirs

IsAgentStep == phase = "running" /\ queue # <<>> /\ queue' = Tail(queue)

\* C10: the collect call that brings a resource to 0 removes it in the same
\* call, so no live resource is depleted; a removed resource is never
\* sensed, never collected from and never re-added.
C10_DepletedIsRemoved ==
    [][/\ \A i \in DOMAIN resources :
            /\ resources'[i].live => resources'[i].amount > 0
            /\ (resources[i].amount > 0 /\ resources'[i].amount <= 0) =>
                   (~resources'[i].live /\ resources'[i].removes = resources[i].removes + 1)
            /\ ~resources[i].live => resources'[i] = resources[i]
       /\ IsAgentStep =>
            \A i \in last'.sensed_resources \cup last'.collected_from :
                resources[i].live]_vars

\* C10 witness: an agent ended its step on the cell of a removed resource
\* and collected nothing
C10_Witness ==
    /\ Stepped
    /\ \E i \in DOMAIN resources :
          /\ ~resources[i].live
          /\ resources[i].amount = 0
          /\ Me.pos = resources[i].pos
          /\ last.collected = 0

\* C14 as claimed: the Mean Distance to Resources of a row is NaN whenever
\* no active (undepleted) resource remains, whatever the number of live
\* agents, zero included.
C14_NaNWithoutActiveResources ==
    (phase = "idle" /\ ticks > 0 /\ ActiveResources(resources) = {}) =>
        row.mean_distance = NaN

----------------------------------------------------------------------------
(* SpecCollect: Resource.collect called directly, on a Resource of         *)
(* agents.py (resources[1]) and on a Resource of models.py (resources[2])  *)

MaxRequest == 6

InitCollect ==
    /\ torus = FALSE
    /\ sensing_radius = 1
    /\ movement_speed = 1
    /\ agents = <<>>
    /\ resources \in [1 .. 2 -> {NewResource(<<0, 0>>, n) : n \in ResourceAmounts}]
    /\ hazards = <<>>
    /\ queue = <<>>
    /\ phase = "idle"
    /\ ticks = 0
    /\ row = NoRow
    /\ last = NoStep
    /\ tick_log = NoTick
    /\ call = NoCall
    /\ twin = <<>>

\* resource.collect(amount=n) on the Resource of agents.py
CallCollect ==
    /\ \E n \in 0 .. MaxRequest :
          LET out == collect(resources[1], n)
          IN  /\ resources' = [resources EXCEPT ![1] = out.res]
              /\ call' = [id |-> 1, n |-> n, before |-> resources[1].amount,
                          returned |-> out.collected]
    /\ UNCHANGED <<torus, sensing_radius, movement_speed, agents, hazards, queue,
                   phase, ticks, row, last, twin, tick_log>>

\* resource.collect(amount=n) on the Resource of models.py
CallPlainCollect ==
    /\ \E n \in 0 .. MaxRequest :
          LET out == plain_collect(resources[2], n)
          IN  /\ resources' = [resources EXCEPT ![2] = out.res]
              /\ call' = [id |-> 2, n |-> n, before |-> resources[2].amount,
                          returned |-> out.collected]
    /\ UNCHANGED <<torus, sensing_radius, movement_speed, agents, hazards, queue,
                   phase, ticks, row, last, twin, tick_log>>

NextCollect ==
    \/ CallCollect
    \/ CallPlainCollect

SpecCollect == InitCollect /\ [][NextCollect]_vars

\* C3: collect(n), n >= 0, returns min(n, amount) and takes exactly that
\* from the amount; on an empty resource it returns 0 and changes nothing;
\* the amount never grows and never drops below 0.
C3_CollectContract ==
    call.id # 0 =>
        LET after == resources[call.id].amount
        IN  /\ call.returned = Min(call.n, call.before)
            /\ after = call.before - call.returned
            /\ (call.before = 0 => (call.returned = 0 /\ after = 0))
            /\ after <= call.before
            /\ after >= 0

\* C3 witness: a positive request on an emptied resource returned 0
C3_Witness ==
    /\ call.id # 0
    /\ call.before = 0
    /\ call.n > 0
    /\ call.returned = 0
    /\ resources[call.id].amount = 0

----------------------------------------------------------------------------
(* SpecFeed: one agent starting on the cell of the only resource (20       *)
(* units), no hazards, movement speed 1                                    *)

InitFeed ==
    /\ torus \in BOOLEAN
    /\ sensing_radius \in SensingRadii
    /\ movement_speed = 1
    /\ \E c \in Cells, h \in Dirs :
          /\ agents = <<NewAgent(c, h)>>
          /\ resources = <<NewResource(c, 20)>>
    /\ hazards = <<>>
    /\ queue = <<>>
    /\ phase = "idle"
    /\ ticks = 0
    /\ row = NoRow
    /\ last = NoStep
    /\ tick_log = NoTick
    /\ call = NoCall
    /\ twin = <<>>

SpecFeed == InitFeed /\ [][Next]_vars

\* C4 as claimed: after 4 ticks the resource is depleted and the agent has
\* collected 20.
C4_FedAfterFourTicks ==
    (ticks = 4 /\ phase = "idle") =>
        /\ is_depleted(resources[1])
        /\ agents[1].resources_collected = 20

\* C4 amended: a resource in the agent's own cell gives no direction, so
\* the agent random-walks off the cell and comes back on the next tick; it
\* collects at least once every two ticks: after 4 ticks it has collected
\* at least 10, and after 8 ticks the resource is depleted and the agent
\* has collected 20.
C4_FedAfterEightTicks ==
    /\ (ticks >= 4 => agents[1].resources_collected >= 10)
    /\ (ticks >= 8 =>
            /\ is_depleted(resources[1])
            /\ ~resources[1].live
            /\ agents[1].resources_collected = 20)

\* C4 witness: the eighth tick ended with the resource used up
C4_Witness ==
    /\ ticks = 8
    /\ is_depleted(resources[1])
    /\ agents[1].resources_collected = 20
    /\ agents[1].live

----------------------------------------------------------------------------
(* SpecStarve: one agent, no resources, no hazards                         *)

StarveTicks == InitialEnergy + 1

InitStarve ==
    /\ torus \in BOOLEAN
    /\ sensing_radius \in SensingRadii
    /\ movement_speed \in MovementSpeeds
    /\ agents \in {<<NewAgent(c, h)>> : c \in Cells, h \in Dirs}
    /\ resources = <<>>
    /\ hazards = <<>>
    /\ queue = <<>>
    /\ phase = "idle"
    /\ ticks = 0
    /\ row = NoRow
    /\ last = NoStep
    /\ tick_log = NoTick
    /\ call = NoCall
    /\ twin = <<>>

NextStarve ==
    \/ ShuffleDo(StarveTicks)
    \/ AgentStep
    \/ CollectData

SpecStarve == InitStarve /\ [][NextStarve]_vars

\* C8: the agent is in the live set after each of ticks 1 to 99, is removed
\* during tick 100 with energy 0, and collects nothing throughout.
C8_StarvesAtTick100 ==
    /\ agents[1].resources_collected = 0
    /\ ((ticks < 100 /\ phase = "idle") =>
            (agents[1].live /\ agents[1].energy = 100 - ticks))
    /\ (ticks = 99 /\ phase = "running" /\ queue = <<>> =>
            (~agents[1].live /\ agents[1].energy = 0))
    /\ (ticks >= 100 =>
            (~agents[1].live /\ agents[1].energy = 0 /\ agents[1].removes = 1))

\* C8 witness: tick 100 is over and the agent is gone
C8_Witness ==
    /\ ticks = 100
    /\ ~agents[1].live
    /\ agents[1].energy = 0

----------------------------------------------------------------------------
(* SpecHazardField: one agent, no resources, one hazard of damage 10 and   *)
(* radius 2 whose radius covers every cell of the grid                     *)

CeilDiv(a, b) == (a + b - 1) \div b

HazardFieldTicks == CeilDiv(InitialEnergy, 11) + 1

InitHazardField ==
    /\ torus \in BOOLEAN
    /\ sensing_radius \in SensingRadii
    /\ movement_speed \in MovementSpeeds
    /\ agents \in {<<NewAgent(c, h)>> : c \in Cells, h \in Dirs}
    /\ resources = <<>>
    /\ hazards \in {<<NewHazard(hc, 10, 2)>> : hc \in Cells}
    /\ \A c \in Cells : cell_distance(c, hazards[1].pos) <= 2
    /\ queue = <<>>
    /\ phase = "idle"
    /\ ticks = 0
    /\ row = NoRow
    /\ last = NoStep
    /\ tick_log = NoTick
    /\ call = NoCall
    /\ twin = <<>>

NextHazardField ==
    \/ ShuffleDo(HazardFieldTicks)
    \/ AgentStep
    \/ CollectData

SpecHazardField == InitHazardField /\ [][NextHazardField]_vars

\* C9: wherever the agent moves, it is removed within ceil(100/11) = 10
\* ticks.
C9_RemovedWithinTenTicks ==
    ticks >= CeilDiv(100, 11) => ~agents[1].live

\* C9 witness: the agent lived through 9 ticks and the hazard killed it in
\* the tenth
C9_Witness ==
    /\ ticks = 10
    /\ ~agents[1].live
    /\ last.energy_before = 1
    /\ last.killed_by_hazard

----------------------------------------------------------------------------
(* SpecSeed: two runs of one model built with the same seed and the same   *)
(* parameters.  What the seeded generator decides (the placement, the      *)
(* order of a tick) is the same in both runs; what the global random       *)
(* module decides (the initial heading, the random walk) is drawn in each  *)
(* run on its own.                                                         *)

SeedTicks == 2

SeedStarts == {<<1, 1>>}

InitSeed ==
    /\ torus \in BOOLEAN
    /\ sensing_radius \in SensingRadii
    /\ movement_speed = 1
    /\ \E c \in SeedStarts, h1 \in Dirs, h2 \in Dirs :
          /\ agents = <<NewAgent(c, h1)>>
          /\ twin = [agents |-> <<NewAgent(c, h2)>>, resources |-> <<>>]
    /\ resources = <<>>
    /\ hazards = <<>>
    /\ queue = <<>>
    /\ phase = "idle"
    /\ ticks = 0
    /\ row = NoRow
    /\ last = NoStep
    /\ tick_log = NoTick
    /\ call = NoCall

\* the step of the next agent of the shuffled order, in both runs
TwinAgentStep ==
    /\ phase = "running"
    /\ queue # <<>>
    /\ \E out \in StepOutcomes(agents, resources, Head(queue)) :
          /\ agents' = out.agents
          /\ resources' = out.resources
          /\ last' = out.last
          /\ tick_log' = LogStep(tick_log, out.last)
    /\ IF twin.agents[Head(queue)].live
       THEN \E out \in StepOutcomes(twin.agents, twin.resources, Head(queue)) :
               twin' = [agents |-> out.agents, resources |-> out.resources]
       ELSE twin' = twin
    /\ queue' = Tail(queue)
    /\ UNCHANGED <<torus, sensing_radius, movement_speed, hazards, phase, ticks,
                   row, call>>

NextSeed ==
    \/ ShuffleDo(SeedTicks)
    \/ TwinAgentStep
    \/ CollectData

SpecSeed == InitSeed /\ [][NextSeed]_vars

\* C7 as claimed: two runs built with the same seed and parameters have,
\* tick by tick, the same agent positions, headings and energies (and so
\* the same survival rate).
C7_SameSeedSameRun ==
    /\ twin.agents = agents
    /\ twin.resources = resources

----------------------------------------------------------------------------
(* SpecDistance: cell_distance called directly, from every grid cell to    *)
(* every grid cell, with the torus flag on and off                         *)

\* the inputs of a call that has not returned yet
NotReturned == 0 - 1

InitDistance ==
    /\ torus \in BOOLEAN
    /\ sensing_radius = 1
    /\ movement_speed = 1
    /\ agents = <<>>
    /\ resources = <<>>
    /\ hazards = <<>>
    /\ queue = <<>>
    /\ phase = "idle"
    /\ ticks = 0
    /\ row = NoRow
    /\ last = NoStep
    /\ tick_log = NoTick
    /\ \E a \in Cells, b \in Cells :
          call = [my |-> a, other |-> b, returned |-> NotReturned]
    /\ twin = <<>>

\* agent.cell_distance(other_coord) for an agent on cell my
CallCellDistance ==
    /\ \E a \in Cells, b \in Cells :
          call' = [my |-> a, other |-> b, returned |-> cell_distance(a, b)]
    /\ UNCHANGED <<torus, sensing_radius, movement_speed, agents, resources,
                   hazards, queue, phase, ticks, row, last, twin, tick_log>>

NextDistance == CallCellDistance

SpecDistance == InitDistance /\ [][NextDistance]_vars

\* C11: cell_distance is symmetric for every pair of grid cells; with the
\* torus on, each axis term is min(direct, wrapped) and the result is at
\* most max(width, height) / 2; with the torus off it is the plain
\* Chebyshev distance.
C11_CellDistanceSymmetric ==
    call.returned # NotReturned =>
        LET direct_x == Abs(call.my[1] - call.other[1])
            direct_y == Abs(call.my[2] - call.other[2])
        IN  /\ call.returned = cell_distance(call.other, call.my)
            /\ call.returned >= 0
            /\ torus =>
                  /\ call.returned = Max(Min(direct_x, Width - direct_x),
                                         Min(direct_y, Height - direct_y))
                  /\ 2 * call.returned <= Max(Width, Height)
            /\ ~torus => call.returned = Max(direct_x, direct_y)

\* C11 witness: with the torus on, the wrapped way between two cells is
\* shorter than the direct one
C11_Witness ==
    /\ torus
    /\ call.returned # NotReturned
    /\ call.my # call.other
    /\ call.returned < Max(Abs(call.my[1] - call.other[1]),
                           Abs(call.my[2] - call.other[2]))

----------------------------------------------------------------------------
(* SpecMove: move(direction) called directly, from every grid cell, in     *)
(* every compass direction, with movement speed 1 and larger               *)

InitMove ==
    /\ torus \in BOOLEAN
    /\ sensing_radius = 1
    /\ movement_speed \in MovementSpeeds
    /\ agents = <<>>
    /\ resources = <<>>
    /\ hazards = <<>>
    /\ queue = <<>>
    /\ phase = "idle"
    /\ ticks = 0
    /\ row = NoRow
    /\ last = NoStep
    /\ tick_log = NoTick
    /\ \E c \in Cells, d \in Dirs :
          call = [pos |-> c, direction |-> d, returned |-> <<NotReturned, NotReturned>>]
    /\ twin = <<>>

\* agent.move(direction) for an agent on cell pos
CallMove ==
    /\ \E c \in Cells, d \in Dirs :
          call' = [pos |-> c, direction |-> d, returned |-> move(c, d)]
    /\ UNCHANGED <<torus, sensing_radius, movement_speed, agents, resources,
                   hazards, queue, phase, ticks, row, last, twin, tick_log>>

NextMove == CallMove

SpecMove == InitMove /\ [][NextMove]_vars

\* C12 as claimed: move(direction) puts the agent on the cell current +
\* direction * movement_speed, wrapped modulo width and height when the
\* torus is on and clamped per axis to the grid when it is off, for every
\* movement speed (1 included), direction and start cell.
C12_MoveWrapsOrClamps ==
    call.returned # <<NotReturned, NotReturned>> =>
        LET nx == call.pos[1] + call.direction[1] * movement_speed
            ny == call.pos[2] + call.direction[2] * movement_speed
        IN  call.returned =
                IF torus
                THEN <<nx % Width, ny % Height>>
                ELSE <<Max(0, Min(Width - 1, nx)), Max(0, Min(Height - 1, ny))>>

----------------------------------------------------------------------------
(* SpecConstruct: UnicellularModel(...) called with valid and invalid      *)
(* parameters.  The constructor checks nothing itself: a negative          *)
(* population fails inside the array allocation, a negative resource or    *)
(* hazard count is an empty range(), and the sensing radius and movement   *)
(* speed are stored as they come.  What the space makes of an empty        *)
(* extent is the library's business and is left open.                      *)

CountValues == {0 - 1, 0, 2}
ExtentValues == {0, 3}
ReachValues == {0 - 1, 0, 1}

ConstructionParameters ==
    [population_size : CountValues, width : ExtentValues, height : ExtentValues,
     num_resources : CountValues, num_hazards : CountValues,
     sensing_radius : ReachValues, movement_speed : ReachValues]

\* what the parameter contract of the constructor rules out
InvalidParameters(p) ==
    \/ p.population_size < 0
    \/ p.num_resources < 0
    \/ p.num_hazards < 0
    \/ p.width <= 0
    \/ p.height <= 0
    \/ p.sensing_radius <= 0
    \/ p.movement_speed <= 0

NotConstructed ==
    [outcome |-> "none", num_agents |-> 0, num_resources |-> 0, num_hazards |-> 0,
     sensing_radius |-> 0, movement_speed |-> 0]

ConstructionError ==
    [outcome |-> "error", num_agents |-> 0, num_resources |-> 0, num_hazards |-> 0,
     sensing_radius |-> 0, movement_speed |-> 0]

\* the model UnicellularModel.__init__ builds when nothing raises:
\* range(n) is empty for n < 0, the agents keep the radius and speed given
BuiltModel(p) ==
    [outcome |-> "built",
     num_agents |-> p.population_size,
     num_resources |-> Max(0, p.num_resources),
     num_hazards |-> Max(0, p.num_hazards),
     sensing_radius |-> p.sensing_radius,
     movement_speed |-> p.movement_speed]

\* every outcome of UnicellularModel(**p)
ConstructOutcomes(p) ==
    IF p.population_size < 0
    THEN {ConstructionError}
    ELSE IF p.width <= 0 \/ p.height <= 0
    THEN {ConstructionError, BuiltModel(p)}
    ELSE {BuiltModel(p)}

InitConstruct ==
    /\ torus = TRUE
    /\ sensing_radius = 1
    /\ movement_speed = 1
    /\ agents = <<>>
    /\ resources = <<>>
    /\ hazards = <<>>
    /\ queue = <<>>
    /\ phase = "idle"
    /\ ticks = 0
    /\ row = NoRow
    /\ last = NoStep
    /\ tick_log = NoTick
    /\ \E p \in ConstructionParameters : call = [params |-> p, model |-> NotConstructed]
    /\ twin = <<>>

\* UnicellularModel(**p)
CallConstruct ==
    /\ \E p \in ConstructionParameters :
          \E m \in ConstructOutcomes(p) : call' = [params |-> p, model |-> m]
    /\ UNCHANGED <<torus, sensing_radius, movement_speed, agents, resources,
                   hazards, queue, phase, ticks, row, last, twin, tick_log>>

NextConstruct == CallConstruct

SpecConstruct == InitConstruct /\ [][NextConstruct]_vars

\* C13 as claimed: construction with an invalid parameter (a negative
\* population, resource or hazard count, a width or height <= 0, a sensing
\* radius or movement speed <= 0) ends in an error and builds no model.
C13_InvalidParametersRejected ==
    (call.model.outcome # "none" /\ InvalidParameters(call.params)) =>
        call.model.outcome = "error"

----------------------------------------------------------------------------
(* SpecCrowd: two agents and one or two resources sharing the centre cell, *)
(* no hazards.  Both agents can reach the resource cell in the same tick   *)
(* and a resource can be used up by the first of them.                     *)

CrowdTicks == 2

CrowdStarts == {<<0, 0>>, <<1, 1>>, <<2, 2>>}
CrowdAmounts == {3, 7}

InitCrowd ==
    /\ torus \in BOOLEAN
    /\ sensing_radius \in SensingRadii
    /\ movement_speed = 1
    /\ agents \in {<<NewAgent(c1, h1), NewAgent(c2, h2)>> :
                      c1 \in CrowdStarts, c2 \in CrowdStarts,
                      h1 \in AgentHeadings, h2 \in AgentHeadings}
    /\ resources \in SeqsOf({NewResource(c, n) : c \in ResourceCells, n \in CrowdAmounts}, 1, 2)
    /\ hazards = <<>>
    /\ queue = <<>>
    /\ phase = "idle"
    /\ ticks = 0
    /\ row = NoRow
    /\ last = NoStep
    /\ tick_log = NoTick
    /\ call = NoCall
    /\ twin = <<>>

NextCrowd ==
    \/ ShuffleDo(CrowdTicks)
    \/ AgentStep
    \/ CollectData

SpecCrowd == InitCrowd /\ [][NextCrowd]_vars

----------------------------------------------------------------------------
(* SpecAttrition: two agents between two hazards of damage 10, left and    *)
(* right of the centre cell, and one or two resources on a cell the        *)
(* hazards push agents to.  On the bounded grid an agent in a corner is    *)
(* covered by one hazard and an agent in the middle column by both, so one *)
(* agent is removed ticks before the other.                                *)

AttritionTicks == 6

AttritionResourceCells == {<<1, 0>>}

InitAttrition ==
    /\ torus \in BOOLEAN
    /\ sensing_radius \in SensingRadii
    /\ movement_speed = 1
    /\ agents \in {<<NewAgent(c1, h1), NewAgent(c2, h2)>> :
                      c1 \in CrowdStarts, c2 \in CrowdStarts,
                      h1 \in AgentHeadings, h2 \in AgentHeadings}
    /\ resources \in SeqsOf({NewResource(c, n) : c \in AttritionResourceCells,
                                                 n \in CrowdAmounts}, 1, 2)
    /\ hazards = <<NewHazard(<<0, 1>>, 10, 1), NewHazard(<<2, 1>>, 10, 1)>>
    /\ queue = <<>>
    /\ phase = "idle"
    /\ ticks = 0
    /\ row = NoRow
    /\ last = NoStep
    /\ tick_log = NoTick
    /\ call = NoCall
    /\ twin = <<>>

NextAttrition ==
    \/ ShuffleDo(AttritionTicks)
    \/ AgentStep
    \/ CollectData

SpecAttrition == InitAttrition /\ [][NextAttrition]_vars

\* the members of sequence q
Members(q) == {q[k] : k \in DOMAIN q}

\* q lists every member of S exactly once
IsPermutationOf(q, S) == Members(q) = S /\ Len(q) = Cardinality(S)

\* C15: one model step runs the step of every agent that is live at the
\* start of the tick exactly once, in some permutation of those agents,
\* runs the step of no other agent, and then appends exactly one row:
\* while the tick runs, the agents stepped so far and the agents still
\* queued together are a permutation of the live set of the start and no
\* row is written; when it is over, the agents stepped are such a
\* permutation and one row was written, from the state all steps left.
C15_EveryLiveAgentStepsOnce ==
    /\ phase = "running" =>
          /\ IsPermutationOf(tick_log.stepped \o queue, tick_log.live)
          /\ tick_log.rows = 0
    /\ (phase = "idle" /\ ticks > 0) =>
          /\ IsPermutationOf(tick_log.stepped, tick_log.live)
          /\ tick_log.rows = 1
          /\ row.population = Cardinality(LiveAgents(agents))
          /\ LiveAgents(agents) \subseteq tick_log.live

\* C15 witness: a tick is over in which one agent, removed in an earlier
\* tick, was not stepped, and the agent still live was
C15_Witness ==
    /\ phase = "idle"
    /\ ticks > 0
    /\ \E i \in DOMAIN agents : ~agents[i].live /\ i \notin tick_log.live
    /\ tick_log.live # {}
    /\ tick_log.stepped # <<>>
    /\ tick_log.rows = 1

----------------------------------------------------------------------------
(* Properties of one tick with several agents, read off the tick log *)

TickLogged == tick_log # NoTick

\* the agents stepped in this tick that ended their step on cell c, in the
\* order of their steps
EndedOn(c) == SelectSeq(tick_log.stepped, LAMBDA i : agents[i].pos = c)

\* C16: what an earlier agent of a tick collected or removed is seen by
\* every later agent of the tick.  For each resource with k collectors so
\* far in the tick, the total taken from it is min(amount at the start of
\* the tick, 5 * k), so at most that amount, and the k-th collector still
\* found something; and when agents end on the cell of a resource that
\* started the tick with an amount <= 5, only the first of them processed
\* collects from it.
C16_EarlierCollectIsSeen ==
    TickLogged =>
        \A r \in DOMAIN resources :
            LET start == tick_log.amounts[r]
                taken == start - resources[r].amount
                k == Len(tick_log.collectors[r])
            IN  /\ taken >= 0
                /\ taken <= start
                /\ taken = Min(start, CollectAmount * k)
                /\ k > 0 => CollectAmount * (k - 1) < start
                /\ (start > 0 /\ start <= CollectAmount) =>
                       tick_log.collectors[r] =
                           IF EndedOn(resources[r].pos) = <<>> THEN <<>>
                           ELSE <<Head(EndedOn(resources[r].pos))>>

\* C16 witness: both agents ended the tick on the cell of a resource that
\* started the tick with at most 5, and the one stepped first took it all
C16_Witness ==
    /\ phase = "idle"
    /\ ticks > 0
    /\ \E r \in DOMAIN resources :
          /\ tick_log.amounts[r] > 0
          /\ tick_log.amounts[r] <= CollectAmount
          /\ Len(EndedOn(resources[r].pos)) = 2
          /\ tick_log.collectors[r] = <<tick_log.stepped[1]>>
          /\ ~resources[r].live

\* the sum of min(5, amount) over the resources of rs with ids in S
SumOfShares(rs, S) ==
    LET sum[T \in SUBSET S] ==
            IF T = {} THEN 0
            ELSE LET i == CHOOSE x \in T : TRUE
                 IN  Min(CollectAmount, rs[i].amount) + sum[T \ {i}]
    IN  sum[S]

\* C17: in one step the agent takes min(5, amount) from every undepleted
\* resource on its new cell, also when several resources share the cell
\* and one is used up by it, and from no other resource; its
\* resources_collected grows by exactly the total, and so does its energy,
\* before the hazard damage and the tick cost of the same step.
C17_CollectsFromEveryResource ==
    [][IsAgentStep =>
          LET a == Head(queue)
              here == {i \in DOMAIN resources :
                          /\ resources[i].live
                          /\ resources[i].amount > 0
                          /\ resources[i].pos = agents'[a].pos}
              total == SumOfShares(resources, here)
          IN  /\ \A i \in DOMAIN resources :
                    resources'[i].amount =
                        IF i \in here
                        THEN resources[i].amount - Min(CollectAmount, resources[i].amount)
                        ELSE resources[i].amount
              /\ last'.collected = total
              /\ last'.collected_from = here
              /\ agents'[a].resources_collected = agents[a].resources_collected + total
              /\ agents'[a].energy = agents[a].energy + total - last'.damage_applied - 1
              /\ \A b \in DOMAIN agents : b # a => agents'[b] = agents[b]]_vars

\* C17 witness: an agent collected from two resources sharing its new cell,
\* using up one of them and leaving something in the other
C17_Witness ==
    /\ Stepped
    /\ Cardinality(last.collected_from) = 2
    /\ \E i \in last.collected_from, j \in last.collected_from :
          /\ ~resources[i].live
          /\ resources[i].amount = 0
          /\ resources[j].live
          /\ resources[j].amount > 0
    /\ last.collected > CollectAmount
    /\ Me.resources_collected = last.collected

\* C19 as claimed: Total Resources Collected is cumulative: its value in
\* the row of a tick is never smaller than in the row of the tick before.
C19_TotalNeverDecreases ==
    [][(ticks > 0 /\ ticks' = ticks + 1) =>
          row'.total_collected >= row.total_collected]_vars

\* the sum of field f over the records of sequence q
RECURSIVE SumField(_, _)
SumField(q, f) == IF q = <<>> THEN 0 ELSE Head(q)[f] + SumField(Tail(q), f)

\* C20: in every state the amounts left in the resources (0 in a removed
\* one) plus the resources_collected of all agents, live and removed, equal
\* the sum of the initial amounts of the resources.
C20_QuantityIsConserved ==
    /\ SumField(resources, "amount") + SumField(agents, "resources_collected")
           = SumField(resources, "initial_amount")
    /\ \A i \in DOMAIN resources : ~resources[i].live => resources[i].amount = 0

\* C20 witness: an agent that had collected is removed, the other agent
\* is live, and a resource was used up and removed
C20_Witness ==
    /\ \E a \in DOMAIN agents : ~agents[a].live /\ agents[a].resources_collected > 0
    /\ \E b \in DOMAIN agents : agents[b].live
    /\ \E i \in DOMAIN resources : ~resources[i].live /\ resources[i].initial_amount > 0

----------------------------------------------------------------------------
(* SpecLifetime: one agent and one small resource, no hazards, run until   *)
(* one tick after tick 100 + R, R being the initial amount of the          *)
(* resource.  A tick that has started is carried through and the next one  *)
(* is started as long as the run lasts, hence the fairness condition.      *)

LifetimeAmounts == {3, 7}

LifetimeTicks == InitialEnergy + 7 + 1

InitLifetime ==
    /\ torus \in BOOLEAN
    /\ sensing_radius \in SensingRadii
    /\ movement_speed = 1
    /\ agents \in SeqsOf({NewAgent(c, h) : c \in AgentStarts, h \in AgentHeadings}, 1, 1)
    /\ resources \in SeqsOf({NewResource(c, n) : c \in ResourceCells,
                                                 n \in LifetimeAmounts}, 1, 1)
    /\ hazards = <<>>
    /\ queue = <<>>
    /\ phase = "idle"
    /\ ticks = 0
    /\ row = NoRow
    /\ last = NoStep
    /\ tick_log = NoTick
    /\ call = NoCall
    /\ twin = <<>>

NextLifetime ==
    \/ ShuffleDo(LifetimeTicks)
    \/ AgentStep
    \/ CollectData

\* model.step() runs to completion: shuffle_do calls the step of each agent
\* of the order in turn, then the row is collected, and the run calls
\* model.step() again until its last tick.  The step of the next agent is
\* enabled whenever the order is not exhausted, so its fairness is stated on
\* the order being advanced.
FairLifetime ==
    /\ WF_vars(ShuffleDo(LifetimeTicks))
    /\ WF_queue(phase = "running" /\ queue # <<>> /\ queue' = Tail(queue))
    /\ WF_vars(CollectData)

SpecLifetime == InitLifetime /\ [][NextLifetime]_vars /\ FairLifetime

\* the total initial resource amount R
TotalInitialAmount == SumField(resources, "initial_amount")

\* C21: with total initial resource amount R, a live agent has at most
\* 100 + R - t energy after t ticks, so every agent is removed no later
\* than tick 100 + R; a removed agent never returns to the live set, and
\* the live-agent count eventually reaches 0 and stays 0.
C21_EveryRunEndsEmpty ==
    /\ [](phase = "idle" =>
             \A i \in LiveAgents(agents) :
                 /\ agents[i].energy > 0
                 /\ agents[i].energy <= InitialEnergy + TotalInitialAmount - ticks)
    /\ [](ticks >= InitialEnergy + TotalInitialAmount => LiveAgents(agents) = {})
    /\ [][LiveAgents(agents') \subseteq LiveAgents(agents)]_vars
    /\ <>[](LiveAgents(agents) = {})

\* C21 witness: the agent collected all of R and was removed in tick
\* 100 + R, not earlier
C21_Witness ==
    /\ phase = "idle"
    /\ ticks = InitialEnergy + TotalInitialAmount
    /\ agents[1].resources_collected = TotalInitialAmount
    /\ ~agents[1].live
    /\ last.energy_before = 1
    /\ row.population = 0

====
